---- MODULE Spec2Model ----
(***************************************************************************)
(* The always-on control service of pi_lerobot (src/webserver.py): the     *)
(* global RobotState, the supervisor functions start_teleoperation and     *)
(* stop_teleoperation, the request handlers api_status / api_start /       *)
(* api_stop and the background auto_start_thread, as threads that          *)
(* interleave at every access to the shared state (the code takes no       *)
(* lock).  The teleoperation children are processes that may exit at any   *)
(* time.                                                                   *)
(***************************************************************************)
EXTENDS Integers, Sequences, FiniteSets, TLC

\* ------------------------------------------------------------------ bounds

\* children the service may spawn in one run (bounds the pid counter)
MaxChildren == 2

\* requests the handler threads serve in one run, when requests overlap
MaxRequests == 2

\* requests served in one run, when they are served one at a time
MaxSeqRequests == 3

\* threads (handlers and auto_start_thread) at work at the same time
MaxActive == 2

\* range(50) of the graceful-wait loop of stop_teleoperation
PollBudget == 50

\* ------------------------------------------------------------------ values

\* the request-serving threads of Flask, the daemon thread of main(), and the
\* main thread, which sits in app.run
Handlers == {"h1", "h2"}
AutoThread == "auto"
MainThread == "main"
Threads == Handlers \cup {AutoThread, MainThread}

\* Python's None for a Popen handle / pid, a path or id, and a type
NoProc == 0
NoPath == << >>
NoType == "None"

Pids == 1..MaxChildren

\* A device link name is the sequence of its "_"-separated segments.
DefaultFollower == <<"tty", "follower">>
DefaultLeader == <<"tty", "leader">>
ArmFollower == <<"tty", "arm1", "follower", "so101">>
CtrlLeader == <<"tty", "ctrl1", "leader", "so100">>
ShortLeader == <<"tty", "x", "leader">>
Arm2Follower == <<"tty", "arm2", "follower", "so100">>
\* a label that holds the text "tty_", a label that is "tty", a role that is
\* neither leader nor follower, and a name whose second-to-last segment is "tty"
TtyLabelFollower == <<"tty", "my", "tty", "arm", "follower", "so101">>
TtyOnlyLeader == <<"tty", "tty", "leader", "so100">>
CamFront == <<"tty", "cam", "front", "usb">>
ShiftedLeader == <<"tty", "a", "leader", "tty", "so100">>

\* every name above, in the order sorted() gives the strings
NameOrder ==
    <<ShiftedLeader, ArmFollower, Arm2Follower, CamFront, CtrlLeader,
      DefaultFollower, DefaultLeader, TtyLabelFollower, TtyOnlyLeader,
      ShortLeader>>

\* ---------------------------------------------------------------- variables

VARIABLES
    teleop_process,     \* state.teleop_process: a pid, or NoProc for None
    teleop_mode,        \* state.teleop_mode
    devices_available,  \* state.devices_available
    cfg,                \* state.follower_port .. state.leader_id
    procs,              \* the children spawned so far, by pid
    nspawned,           \* number of children spawned (the last pid)
    nreq,               \* number of requests taken up by the handlers
    sequential,         \* whether calls are made one at a time
    devs,               \* the link names present in /dev
    configFile,         \* ~/.lerobot_teleop_config
    pc,                 \* where each thread is
    loc,                \* each thread's local variables
    runs,               \* the runs of the launcher, the selector and the loader
    last                \* how the latest of these runs went and ended

vars == <<teleop_process, teleop_mode, devices_available, cfg, procs, nspawned,
          nreq, sequential, devs, configFile, pc, loc, runs, last>>

shared == <<teleop_process, teleop_mode, devices_available, cfg>>
env == <<devs, configFile, nreq, sequential, runs, last>>

\* ------------------------------------------------------------------ helpers

\* RobotState.__init__
RobotStateInit ==
    /\ teleop_process = NoProc
    /\ teleop_mode = "stopped"
    /\ devices_available = FALSE
    /\ cfg = [follower_port |-> NoPath, leader_port |-> NoPath,
              follower_type |-> NoType, leader_type |-> NoType,
              follower_id |-> NoPath, leader_id |-> NoPath]

\* what a status response holds of the supervisor (hset: whether the handle was
\* set when 'running' was computed)
NoResp == [running |-> FALSE, mode |-> "none", pid |-> NoProc, hset |-> FALSE]

\* a thread's locals.  wasChild and wasMode are the running child (NoProc when
\* none was running) and the mode when the call began.
LocInit ==
    [op |-> "none", ra |-> "none", wq |-> << >>, saved |-> FALSE, i |-> 0,
     plan |-> << >>, process |-> NoProc, args |-> << >>, term |-> NoProc,
     kill |-> NoProc, ret |-> "none", wasChild |-> NoProc, wasMode |-> "none",
     resp |-> NoResp, since |-> 0, during |-> FALSE]

\* Popen.poll() is None
Alive(p) == procs[p].st = "alive"

AliveChildren == {p \in Pids : Alive(p)}

\* RobotState.is_running, evaluated in one piece
Running == teleop_process # NoProc /\ Alive(teleop_process)

\* str.replace("tty_", ""): every "tty" segment that an underscore follows goes
RECURSIVE ReplaceTty(_)
ReplaceTty(name) ==
    IF Len(name) <= 1 THEN name
    ELSE IF Head(name) = "tty" THEN ReplaceTty(Tail(name))
         ELSE <<Head(name)>> \o ReplaceTty(Tail(name))

\* parts[:-2]
Label(parts) == SubSeq(parts, 1, Len(parts) - 2)

\* parts[-1]
TypeOf(parts) == parts[Len(parts)]

\* Path(p).exists() for a path under /dev
Exists(path) == path \in devs

\* the six fields load_device_config assigns from a valid saved selection
SavedPlan(f, l) ==
    [follower_type |-> TypeOf(ReplaceTty(f)), follower_id |-> Label(ReplaceTty(f)),
     leader_type |-> TypeOf(ReplaceTty(l)), leader_id |-> Label(ReplaceTty(l)),
     follower_port |-> f, leader_port |-> l]

\* the "# Defaults" of load_device_config
DefaultPlan ==
    [follower_port |-> DefaultFollower, leader_port |-> DefaultLeader,
     follower_type |-> "so101", follower_id |-> <<"default">>,
     leader_type |-> "so101", leader_id |-> <<"default">>]

\* the order in which each branch of load_device_config assigns the fields
SavedOrder == <<"follower_type", "follower_id", "leader_type", "leader_id",
                "follower_port", "leader_port">>
DefaultOrder == <<"follower_port", "leader_port", "follower_type", "follower_id",
                  "leader_type", "leader_id">>

\* the text of the file is a sequence of paths and newlines
NL == <<"\n">>

\* str.strip(), of the newlines at either end
RECURSIVE Strip(_)
Strip(text) ==
    IF text = << >> THEN text
    ELSE IF Head(text) = NL THEN Strip(Tail(text))
    ELSE IF text[Len(text)] = NL THEN Strip(SubSeq(text, 1, Len(text) - 1))
    ELSE text

\* str.split("\n"): an empty line is the empty path
RECURSIVE Split(_)
Split(text) ==
    IF text = << >> THEN <<NoPath>>
    ELSE IF Head(text) = NL THEN <<NoPath>> \o Split(Tail(text))
    ELSE IF Len(text) = 1 THEN text
    ELSE <<Head(text)>> \o Split(SubSeq(text, 3, Len(text)))

\* f.read().strip().split("\n")
LinesOf(file) == Split(Strip(file.text))

\* the lines of the file as it is now
lines == LinesOf(configFile)

\* faulty variant of SavedUsable: one name that parses is enough
SavedUsableEitherParses ==
    /\ configFile.exists
    /\ Len(lines) >= 2
    /\ Exists(lines[1]) /\ Exists(lines[2])
    /\ Len(ReplaceTty(lines[1])) >= 3 \/ Len(ReplaceTty(lines[2])) >= 3

\* faulty variant of SavedUsable: the default pair, when it is there, comes
\* before the saved one
SavedUsableUnlessDefault ==
    /\ configFile.exists
    /\ Len(lines) >= 2
    /\ Exists(lines[1]) /\ Exists(lines[2])
    /\ Len(ReplaceTty(lines[1])) >= 3
    /\ Len(ReplaceTty(lines[2])) >= 3
    /\ ~(Exists(DefaultFollower) /\ Exists(DefaultLeader))

\* the nested conditions under which load_device_config takes the saved branch
SavedUsable ==
    /\ configFile.exists
    /\ Len(lines) >= 2
    /\ Exists(lines[1]) /\ Exists(lines[2])
    /\ Len(ReplaceTty(lines[1])) >= 3
    /\ Len(ReplaceTty(lines[2])) >= 3

\* ------------------------------------------------------------------ threads

Goto(t, l) == pc' = [pc EXCEPT ![t] = l]

\* the process ends: main() has left, and the daemon threads end with it
Exit == pc' = [t \in Threads |-> "down"]

\* threads at work: serving a request, or auto_start_thread past its first sleep
Active == {t \in Threads : pc[t] \notin {"idle", "a_sleep", "a_fin", "m_serve", "down"}}

\* threads inside start_teleoperation
InStart == {t \in Threads : loc[t].op = "start"}

\* another thread may start working
MayRun == Cardinality(Active) < (IF sequential THEN 1 ELSE MaxActive)

\* a handler thread is free and a request arrives
Accept(t) ==
    /\ t \in Handlers /\ pc[t] = "idle"
    /\ MayRun
    /\ nreq < (IF sequential THEN MaxSeqRequests ELSE MaxRequests)
    /\ nreq' = nreq + 1

\* the locals of a thread that enters start_teleoperation or stop_teleoperation
\* (what the call found is kept for calls made one at a time; a stop keeps
\* the number of children spawned before it began)
Enter(op) ==
    IF sequential
    THEN [LocInit EXCEPT !.op = op, !.wasMode = teleop_mode,
                         !.wasChild = IF Running THEN teleop_process ELSE NoProc,
                         !.since = IF op = "stop" THEN nspawned ELSE 0]
    ELSE [LocInit EXCEPT !.op = op,
                         !.since = IF op = "stop" THEN nspawned ELSE 0]

\* where refresh_state returns to
AfterRefresh(t) == IF t = AutoThread THEN "a565" ELSE "st523a"

\* faulty variant of Refresh41: finding no device ends the session's mode
Refresh41Stops(t) ==
    /\ devices_available' = (devs # {})
    /\ teleop_mode' = IF devs = {} THEN "stopped" ELSE teleop_mode
    /\ Goto(t, "r45")
    /\ UNCHANGED <<teleop_process, cfg, procs, nspawned>>

\* refresh_state: the glob of /dev/tty_*
Refresh41(t) ==
    /\ devices_available' = (devs # {})
    /\ Goto(t, "r45")
    /\ UNCHANGED <<teleop_process, teleop_mode, cfg, procs, nspawned>>

\* start_teleoperation: is_running(), first read:
\* if self.teleop_process is None: return False
Start99a(t) ==
    /\ Goto(t, IF teleop_process = NoProc THEN "s105" ELSE "s99b")
    /\ UNCHANGED <<shared, procs, nspawned>>

\* stop_teleoperation: is_running(), first read
Stop172a(t) ==
    /\ Goto(t, IF teleop_process = NoProc THEN "p174" ELSE "p172b")
    /\ UNCHANGED <<shared, procs, nspawned>>

\* POST /api/start: api_start calls start_teleoperation
BeginStart(t) ==
    /\ Accept(t)
    /\ nspawned + Cardinality(InStart) < MaxChildren
    /\ Start99a(t)
    /\ loc' = [loc EXCEPT ![t] = Enter("start")]
    /\ UNCHANGED <<sequential, devs, configFile, runs, last>>

\* POST /api/stop: api_stop calls stop_teleoperation
BeginStop(t) ==
    /\ Accept(t)
    /\ Stop172a(t)
    /\ loc' = [loc EXCEPT ![t] = Enter("stop")]
    /\ UNCHANGED <<sequential, devs, configFile, runs, last>>

\* a stop is inside its wait loop
StopWaits == \E s \in Handlers : loc[s].op = "stop" /\ pc[s] = "p183"

\* GET /api/status: api_status calls state.refresh_state() (whether a stop was
\* in its wait loop when the request came is kept)
BeginStatus(t) ==
    /\ Accept(t)
    /\ Refresh41(t)
    /\ loc' = [loc EXCEPT ![t].op = "status", ![t].during = StopWaits]
    /\ UNCHANGED <<sequential, devs, configFile, runs, last>>

\* auto_start_thread wakes from its first sleep and calls state.refresh_state()
AutoWake(t) ==
    /\ t = AutoThread /\ pc[t] = "a_sleep"
    /\ MayRun
    /\ Refresh41(t)
    /\ loc' = [loc EXCEPT ![t].op = "auto"]
    /\ UNCHANGED env

\* refresh_state: if not self.follower_port: self.load_device_config()
Refresh45(t) ==
    /\ pc[t] = "r45"
    /\ IF cfg.follower_port = NoPath
       THEN /\ Goto(t, "ld52")
            /\ loc' = [loc EXCEPT ![t].ra = "refresh"]
       ELSE /\ Goto(t, AfterRefresh(t))
            /\ UNCHANGED loc
    /\ UNCHANGED <<shared, procs, nspawned, env>>

\* load_device_config: read the file and decide which values to assign
Load52(t) ==
    /\ pc[t] = "ld52"
    /\ Goto(t, "ldw")
    /\ loc' = [loc EXCEPT
                 ![t].saved = SavedUsable,
                 ![t].plan = IF SavedUsable
                             THEN SavedPlan(lines[1], lines[2])
                             ELSE DefaultPlan,
                 ![t].wq = IF SavedUsable THEN SavedOrder ELSE DefaultOrder]
    /\ UNCHANGED <<shared, procs, nspawned, env>>

\* load_device_config: the next assignment to a field of state
LoadWrite(t) ==
    /\ pc[t] = "ldw"
    /\ loc[t].wq # << >>
    /\ cfg' = [cfg EXCEPT ![Head(loc[t].wq)] = loc[t].plan[Head(loc[t].wq)]]
    /\ loc' = [loc EXCEPT ![t].wq = Tail(@)]
    /\ UNCHANGED <<teleop_process, teleop_mode, devices_available, procs, nspawned,
                   env, pc>>

\* what load_device_config returns
LoadResult(t) ==
    IF loc[t].saved THEN TRUE
    ELSE Exists(cfg.follower_port) /\ Exists(cfg.leader_port)

\* load_device_config returns, to refresh_state or to start_teleoperation
LoadReturn(t) ==
    /\ pc[t] = "ldw"
    /\ loc[t].wq = << >>
    /\ IF loc[t].ra = "refresh"
       THEN /\ Goto(t, AfterRefresh(t))
            /\ loc' = [loc EXCEPT ![t].ra = "none", ![t].plan = << >>,
                                  ![t].saved = FALSE]
       ELSE IF LoadResult(t)
            THEN /\ Goto(t, "s111")
                 /\ loc' = [loc EXCEPT ![t].ra = "none", ![t].plan = << >>,
                                       ![t].saved = FALSE]
            ELSE /\ Goto(t, "done")
                 /\ loc' = [loc EXCEPT ![t].ra = "none", ![t].plan = << >>,
                                       ![t].saved = FALSE, ![t].ret = "False"]
    /\ UNCHANGED <<shared, procs, nspawned, env>>

\* --------------------------------------------------- start_teleoperation

\* faulty variant of Start99b: a start that goes on whether or not the child is
\* alive
Start99bBlind(t) ==
    /\ pc[t] = "s99b"
    /\ Goto(t, "s105")
    /\ UNCHANGED <<shared, procs, nspawned, env, loc>>

\* faulty variant of Start99b: a handle that is set counts as running
Start99bHandleSet(t) ==
    /\ pc[t] = "s99b"
    /\ IF teleop_process = NoProc
       THEN Goto(t, "done") /\ loc' = [loc EXCEPT ![t].ret = "raised"]
       ELSE Goto(t, "done") /\ loc' = [loc EXCEPT ![t].ret = "False"]
    /\ UNCHANGED <<shared, procs, nspawned, env>>

\* is_running(), second read: self.teleop_process.poll() is None.  Outside any
\* try: a handle cleared since the first read raises AttributeError.
Start99b(t) ==
    /\ pc[t] = "s99b"
    /\ IF teleop_process = NoProc
       THEN Goto(t, "done") /\ loc' = [loc EXCEPT ![t].ret = "raised"]
       ELSE IF Alive(teleop_process)
            THEN Goto(t, "done") /\ loc' = [loc EXCEPT ![t].ret = "False"]
            ELSE Goto(t, "s105") /\ UNCHANGED loc
    /\ UNCHANGED <<shared, procs, nspawned, env>>

\* if not state.follower_port or not state.leader_port: load_device_config()
Start105(t) ==
    /\ pc[t] = "s105"
    /\ IF cfg.follower_port = NoPath \/ cfg.leader_port = NoPath
       THEN Goto(t, "ld52") /\ loc' = [loc EXCEPT ![t].ra = "start"]
       ELSE Goto(t, "s111") /\ UNCHANGED loc
    /\ UNCHANGED <<shared, procs, nspawned, env>>

\* "# Copy config values" and the command built from them
Start111(t) ==
    /\ pc[t] = "s111"
    /\ Goto(t, "s147")
    /\ loc' = [loc EXCEPT ![t].args = cfg]
    /\ UNCHANGED <<shared, procs, nspawned, env>>

\* a child just created by Popen
NewChild(args) == [st |-> "alive", term |-> FALSE, kill |-> FALSE, argv |-> args]

\* the try block up to Popen: the log file opens and the child is spawned
SpawnOk(t) ==
    /\ pc[t] = "s147"
    /\ nspawned < MaxChildren
    /\ nspawned' = nspawned + 1
    /\ procs' = [procs EXCEPT ![nspawned + 1] = NewChild(loc[t].args)]
    /\ Goto(t, "s155")
    /\ loc' = [loc EXCEPT ![t].process = nspawned + 1]
    /\ UNCHANGED <<shared, env>>

\* the try block up to Popen: open() or Popen raises (no executable, no
\* permission, log file not writable)
SpawnRaises(t) ==
    /\ pc[t] = "s147"
    /\ Goto(t, "s165")
    /\ UNCHANGED <<shared, procs, nspawned, env, loc>>

\* state.teleop_process = process
Start155(t) ==
    /\ pc[t] = "s155"
    /\ teleop_process' = loc[t].process
    /\ Goto(t, "s156")
    /\ UNCHANGED <<teleop_mode, devices_available, cfg, procs, nspawned, env, loc>>

\* state.teleop_mode = "teleoperation"; return True
Start156(t) ==
    /\ pc[t] = "s156"
    /\ teleop_mode' = "teleoperation"
    /\ Goto(t, "done")
    /\ loc' = [loc EXCEPT ![t].ret = "True"]
    /\ UNCHANGED <<teleop_process, devices_available, cfg, procs, nspawned, env>>

\* faulty variant of Start165: the except block leaves the handle as it is
Start165Keep(t) ==
    /\ pc[t] = "s165"
    /\ Goto(t, "s166")
    /\ UNCHANGED <<shared, procs, nspawned, env, loc>>

\* except: state.teleop_process = None
Start165(t) ==
    /\ pc[t] = "s165"
    /\ teleop_process' = NoProc
    /\ Goto(t, "s166")
    /\ UNCHANGED <<teleop_mode, devices_available, cfg, procs, nspawned, env, loc>>

\* except: state.teleop_mode = "stopped"; return False
Start166(t) ==
    /\ pc[t] = "s166"
    /\ teleop_mode' = "stopped"
    /\ Goto(t, "done")
    /\ loc' = [loc EXCEPT ![t].ret = "False"]
    /\ UNCHANGED <<teleop_process, devices_available, cfg, procs, nspawned, env>>

\* ---------------------------------------------------- stop_teleoperation

\* is_running(), second read, outside the try
Stop172b(t) ==
    /\ pc[t] = "p172b"
    /\ IF teleop_process = NoProc
       THEN Goto(t, "done") /\ loc' = [loc EXCEPT ![t].ret = "raised"]
       ELSE IF Alive(teleop_process)
            THEN Goto(t, "p180") /\ UNCHANGED loc
            ELSE Goto(t, "p174") /\ UNCHANGED loc
    /\ UNCHANGED <<shared, procs, nspawned, env>>

\* faulty variant of Stop174: the not-running branch leaves the mode as it is
Stop174KeepMode(t) ==
    /\ pc[t] = "p174"
    /\ Goto(t, "done")
    /\ loc' = [loc EXCEPT ![t].ret = "False"]
    /\ UNCHANGED <<shared, procs, nspawned, env>>

\* not running: state.teleop_mode = "stopped"; return False
Stop174(t) ==
    /\ pc[t] = "p174"
    /\ teleop_mode' = "stopped"
    /\ Goto(t, "done")
    /\ loc' = [loc EXCEPT ![t].ret = "False"]
    /\ UNCHANGED <<teleop_process, devices_available, cfg, procs, nspawned, env>>

\* except Exception inside stop_teleoperation: log and return False
StopExcept(t) ==
    /\ Goto(t, "done")
    /\ loc' = [loc EXCEPT ![t].ret = "False"]
    /\ UNCHANGED <<shared, procs, nspawned, env>>

\* state.teleop_process.terminate()
Stop180(t) ==
    /\ pc[t] = "p180"
    /\ IF teleop_process = NoProc
       THEN StopExcept(t)
       ELSE /\ procs' = [procs EXCEPT ![teleop_process].term =
                                         @ \/ Alive(teleop_process)]
            /\ Goto(t, "p183")
            /\ loc' = [loc EXCEPT ![t].term = teleop_process, ![t].i = 0]
            /\ UNCHANGED <<shared, nspawned, env>>

\* one round of "for _ in range(50)": poll, then break or sleep
Stop183(t) ==
    /\ pc[t] = "p183"
    /\ IF teleop_process = NoProc
       THEN StopExcept(t)
       ELSE /\ IF ~Alive(teleop_process) \/ loc[t].i + 1 >= PollBudget
               THEN Goto(t, "p187") /\ loc' = [loc EXCEPT ![t].i = @ + 1]
               ELSE UNCHANGED pc /\ loc' = [loc EXCEPT ![t].i = @ + 1]
            /\ UNCHANGED <<shared, procs, nspawned, env>>

\* faulty variant of Stop187: kill follows the loop whether or not the child
\* is still alive
Stop187Always(t) ==
    /\ pc[t] = "p187"
    /\ IF teleop_process = NoProc
       THEN StopExcept(t)
       ELSE /\ Goto(t, "p189")
            /\ UNCHANGED <<shared, procs, nspawned, env, loc>>

\* if state.teleop_process.poll() is None
Stop187(t) ==
    /\ pc[t] = "p187"
    /\ IF teleop_process = NoProc
       THEN StopExcept(t)
       ELSE /\ Goto(t, IF Alive(teleop_process) THEN "p189" ELSE "p193")
            /\ UNCHANGED <<shared, procs, nspawned, env, loc>>

\* faulty variant of Stop189: no kill is sent before the wait
Stop189NoKill(t) ==
    /\ pc[t] = "p189"
    /\ Goto(t, "p190")
    /\ UNCHANGED <<shared, procs, nspawned, env, loc>>

\* state.teleop_process.kill()
Stop189(t) ==
    /\ pc[t] = "p189"
    /\ IF teleop_process = NoProc
       THEN StopExcept(t)
       ELSE /\ procs' = [procs EXCEPT ![teleop_process].kill =
                                         @ \/ Alive(teleop_process)]
            /\ Goto(t, "p190")
            /\ loc' = [loc EXCEPT ![t].kill = teleop_process]
            /\ UNCHANGED <<shared, nspawned, env>>

\* state.teleop_process.wait(): blocks until that child has exited
Stop190(t) ==
    /\ pc[t] = "p190"
    /\ IF teleop_process = NoProc
       THEN StopExcept(t)
       ELSE /\ ~Alive(teleop_process)
            /\ Goto(t, "p193")
            /\ UNCHANGED <<shared, procs, nspawned, env, loc>>

\* state.teleop_process = None
Stop193(t) ==
    /\ pc[t] = "p193"
    /\ teleop_process' = NoProc
    /\ Goto(t, "p194")
    /\ UNCHANGED <<teleop_mode, devices_available, cfg, procs, nspawned, env, loc>>

\* state.teleop_mode = "stopped"; return True
Stop194(t) ==
    /\ pc[t] = "p194"
    /\ teleop_mode' = "stopped"
    /\ Goto(t, "done")
    /\ loc' = [loc EXCEPT ![t].ret = "True"]
    /\ UNCHANGED <<teleop_process, devices_available, cfg, procs, nspawned, env>>

\* -------------------------------------------------------------- api_status

\* faulty variant of Status523a: the handler waits until no stop is under way
Status523aWaits(t) ==
    /\ pc[t] = "st523a"
    /\ \A s \in Handlers : loc[s].op # "stop"
    /\ Goto(t, IF teleop_process = NoProc THEN "st524" ELSE "st523b")
    /\ loc' = [loc EXCEPT ![t].resp.hset = (teleop_process # NoProc)]
    /\ UNCHANGED <<shared, procs, nspawned, env>>

\* 'running': state.is_running(), first read
Status523a(t) ==
    /\ pc[t] = "st523a"
    /\ Goto(t, IF teleop_process = NoProc THEN "st524" ELSE "st523b")
    /\ loc' = [loc EXCEPT ![t].resp.hset = (teleop_process # NoProc)]
    /\ UNCHANGED <<shared, procs, nspawned, env>>

\* 'running': state.is_running(), second read
Status523b(t) ==
    /\ pc[t] = "st523b"
    /\ IF teleop_process = NoProc
       THEN Goto(t, "done") /\ loc' = [loc EXCEPT ![t].ret = "raised"]
       ELSE /\ Goto(t, "st524")
            /\ loc' = [loc EXCEPT ![t].resp.running = Alive(teleop_process)]
    /\ UNCHANGED <<shared, procs, nspawned, env>>

\* 'mode': state.teleop_mode, 'devices_available': state.devices_available
Status524(t) ==
    /\ pc[t] = "st524"
    /\ Goto(t, "st526a")
    /\ loc' = [loc EXCEPT ![t].resp.mode = teleop_mode]
    /\ UNCHANGED <<shared, procs, nspawned, env>>

\* 'pid': ... if state.is_running(), first read
Status526a(t) ==
    /\ pc[t] = "st526a"
    /\ Goto(t, IF teleop_process = NoProc THEN "st527" ELSE "st526b")
    /\ UNCHANGED <<shared, procs, nspawned, env, loc>>

\* 'pid': ... if state.is_running(), second read
Status526b(t) ==
    /\ pc[t] = "st526b"
    /\ IF teleop_process = NoProc
       THEN Goto(t, "done") /\ loc' = [loc EXCEPT ![t].ret = "raised"]
       ELSE /\ Goto(t, IF Alive(teleop_process) THEN "st526c" ELSE "st527")
            /\ UNCHANGED loc
    /\ UNCHANGED <<shared, procs, nspawned, env>>

\* 'pid': state.teleop_process.pid
Status526c(t) ==
    /\ pc[t] = "st526c"
    /\ IF teleop_process = NoProc
       THEN Goto(t, "done") /\ loc' = [loc EXCEPT ![t].ret = "raised"]
       ELSE /\ Goto(t, "st527")
            /\ loc' = [loc EXCEPT ![t].resp.pid = teleop_process]
    /\ UNCHANGED <<shared, procs, nspawned, env>>

\* the six port/type/id entries; jsonify returns the status object
Status527(t) ==
    /\ pc[t] = "st527"
    /\ Goto(t, "done")
    /\ loc' = [loc EXCEPT ![t].ret = "True"]
    /\ UNCHANGED <<shared, procs, nspawned, env>>

\* -------------------------------------------------------- auto_start_thread

\* if state.devices_available: sleep, then start_teleoperation()
Auto565(t) ==
    /\ pc[t] = "a565"
    /\ IF devices_available
       THEN /\ nspawned + Cardinality(InStart) < MaxChildren
            /\ Start99a(t)
            /\ loc' = [loc EXCEPT ![t] = Enter("start")]
       ELSE /\ Goto(t, "a_fin")
            /\ loc' = [loc EXCEPT ![t] = LocInit]
            /\ UNCHANGED <<shared, procs, nspawned>>
    /\ UNCHANGED env

\* faulty variant of Respond: auto_start_thread sleeps and tries again after a
\* failed attempt
RespondRetry(t) ==
    /\ pc[t] = "done"
    /\ IF t = MainThread
       THEN Exit
       ELSE Goto(t, IF t # AutoThread THEN "idle"
                    ELSE IF loc[t].ret = "False" THEN "a_sleep" ELSE "a_fin")
    /\ loc' = [loc EXCEPT ![t] = LocInit]
    /\ UNCHANGED <<shared, procs, nspawned, env>>

\* the call is over: the handler answers and is free again; auto_start_thread
\* logs the outcome and ends; main() goes on to sys.exit(0), or dies of the
\* error stop_teleoperation raised
Respond(t) ==
    /\ pc[t] = "done"
    /\ IF t = MainThread
       THEN Exit
       ELSE Goto(t, IF t = AutoThread THEN "a_fin" ELSE "idle")
    /\ loc' = [loc EXCEPT ![t] = LocInit]
    /\ UNCHANGED <<shared, procs, nspawned, env>>

\* -------------------------------------------------------------- environment

\* a child exits: on its own, or because it was signalled
ChildExit(p) ==
    /\ Alive(p)
    /\ procs' = [procs EXCEPT ![p].st = "exited"]
    /\ UNCHANGED <<shared, nspawned, env, pc, loc>>

\* the devices are unplugged, while no call is under way
Unplug ==
    /\ Active = {}
    /\ devs # {}
    /\ devs' = {}
    /\ UNCHANGED <<shared, procs, nspawned, nreq, sequential, configFile, pc, loc,
                   runs, last>>

\* --------------------------------------------------------------- the system

NoFile == [exists |-> FALSE, text |-> << >>]

\* faulty variant of FileOf: the leader is written first
FileOfSwapped(f, l) == [exists |-> TRUE, text |-> <<l, NL, f, NL>>]

\* the file after f.write(follower + "\n"); f.write(leader + "\n")
FileOf(f, l) == [exists |-> TRUE, text |-> <<f, NL, l, NL>>]

\* no run yet.  Of a run: the program, its exit code, how many children it
\* spawned, the child's state when the program ended, the operator's answers at
\* the two selection prompts and at the confirmation prompt, the positions of
\* the entries chosen, whether the selection was written, and how the write
\* ended
NoRun ==
    [flow |-> "none", exit |-> 0, spawns |-> 0, child |-> "none",
     follower |-> << >>, leader |-> << >>, confirm |-> "none",
     chosen |-> [follower |-> 0, leader |-> 0], saved |-> FALSE,
     write |-> "none"]

\* what /dev and the persisted selection may hold when the service starts:
\* the default pair, a valid selection, nothing, devices but neither a
\* selection nor the default pair ...
BootDefault == [devs |-> {DefaultFollower, DefaultLeader}, file |-> NoFile]
BootSaved ==
    [devs |-> {ArmFollower, CtrlLeader}, file |-> FileOf(ArmFollower, CtrlLeader)]
BootEmpty == [devs |-> {}, file |-> NoFile]
BootUnnamed == [devs |-> {ArmFollower, CtrlLeader}, file |-> NoFile]
\* ... a selection whose leader name has too few segments, and a selection
\* whose devices are gone
BootShort ==
    [devs |-> {ArmFollower, ShortLeader, DefaultFollower, DefaultLeader},
     file |-> FileOf(ArmFollower, ShortLeader)]
BootStale ==
    [devs |-> {DefaultFollower, DefaultLeader},
     file |-> FileOf(ArmFollower, CtrlLeader)]

Boots == {BootDefault, BootSaved, BootEmpty, BootUnnamed}
SeqBoots == Boots \cup {BootShort, BootStale}

\* the service after main() has started auto_start_thread and app.run
Boot ==
    /\ RobotStateInit
    /\ procs = [p \in Pids |-> [st |-> "unborn", term |-> FALSE, kill |-> FALSE,
                                argv |-> << >>]]
    /\ nspawned = 0
    /\ nreq = 0
    /\ pc = [t \in Threads |-> IF t = AutoThread THEN "a_sleep"
                               ELSE IF t = MainThread THEN "m_serve" ELSE "idle"]
    /\ loc = [t \in Threads |-> LocInit]
    /\ runs = << >>
    /\ last = NoRun

\* requests and auto_start_thread overlap
Init ==
    /\ Boot
    /\ sequential = FALSE
    /\ \E b \in Boots : devs = b.devs /\ configFile = b.file

\* calls are made one at a time
InitSeq ==
    /\ Boot
    /\ sequential = TRUE
    /\ \E b \in SeqBoots : devs = b.devs /\ configFile = b.file

Step(t) ==
    \/ BeginStart(t) \/ BeginStop(t) \/ BeginStatus(t) \/ AutoWake(t)
    \/ Refresh45(t) \/ Load52(t) \/ LoadWrite(t) \/ LoadReturn(t)
    \/ Start99b(t) \/ Start105(t) \/ Start111(t)
    \/ SpawnOk(t) \/ SpawnRaises(t)
    \/ Start155(t) \/ Start156(t) \/ Start165(t) \/ Start166(t)
    \/ Stop172b(t) \/ Stop174(t) \/ Stop180(t) \/ Stop183(t)
    \/ Stop187(t) \/ Stop189(t) \/ Stop190(t) \/ Stop193(t) \/ Stop194(t)
    \/ Status523a(t) \/ Status523b(t) \/ Status524(t)
    \/ Status526a(t) \/ Status526b(t) \/ Status526c(t) \/ Status527(t)
    \/ Auto565(t) \/ Respond(t)

Next ==
    \/ \E t \in Threads : Step(t)
    \/ \E p \in Pids : ChildExit(p)
    \/ Unplug

Spec == Init /\ [][Next]_vars

SpecSeq == InitSeq /\ [][Next]_vars

\* requests the service has taken when the interrupt comes, at most
MaxDownRequests == 1

\* main(): KeyboardInterrupt comes out of app.run; is_running(), first read.
\* With no handle the process exits at once, and its daemon threads with it
Main599a ==
    /\ pc[MainThread] = "m_serve"
    /\ nreq <= MaxDownRequests
    /\ IF teleop_process = NoProc THEN Exit ELSE Goto(MainThread, "m599b")
    /\ UNCHANGED <<shared, procs, nspawned, env, loc>>

\* main(): is_running(), second read (an error here leaves the handler of
\* main and ends the process too)
Main599b ==
    /\ pc[MainThread] = "m599b"
    /\ IF teleop_process # NoProc /\ Alive(teleop_process)
       THEN Goto(MainThread, "m600")
       ELSE Exit
    /\ UNCHANGED <<shared, procs, nspawned, env, loc>>

\* main(): is_running() said True, so it calls stop_teleoperation()
Main600 ==
    /\ pc[MainThread] = "m600"
    /\ Stop172a(MainThread)
    /\ loc' = [loc EXCEPT ![MainThread] = Enter("stop")]
    /\ UNCHANGED env

\* the process is gone
Down == pc[MainThread] = "down"

NextDown ==
    \/ Next
    \/ Main599a
    \/ Main599b
    \/ Main600

\* calls one at a time, and an interrupt at any moment of them
SpecDown == InitSeq /\ [][NextDown]_vars

\* a thread inside a call takes its next step (the interpreter switches threads
\* every few milliseconds; a request, though, need never arrive)
Work(t) == pc[t] \notin {"idle", "a_sleep"} /\ Step(t)

\* a child that was sent SIGKILL exits
KilledExit == \E p \in Pids : procs[p].kill /\ ChildExit(p)

\* calls one at a time, every call scheduled, SIGKILL effective
SpecSeqFair ==
    /\ InitSeq /\ [][Next]_vars
    /\ \A t \in Threads : WF_vars(Work(t))
    /\ WF_vars(KilledExit)

\* ------------------------------------------- launcher, selector and loader

\* runs recorded at most (bounds the history)
MaxRuns == 2

\* sorted(dev_dir.glob("tty_*"))
Sorted(names) == SelectSeq(NameOrder, LAMBDA n : n \in names)

\* name.replace("tty_", "").split("_")
Parts(name) == ReplaceTty(name)

\* the tuple get_devices appends for a name (the resolved port is left out)
Entry(name) ==
    [nice_name |-> Label(Parts(name)), type |-> TypeOf(Parts(name)), link |-> name]

\* get_devices keeps the name for this role: parts[-2] == role, len(parts) >= 3
Keeps(name, role) ==
    Len(Parts(name)) >= 3 /\ Parts(name)[Len(Parts(name)) - 1] = role

\* one of the two lists get_devices builds
ListOf(names, role) ==
    LET kept == SelectSeq(Sorted(names), LAMBDA n : Keeps(n, role))
    IN  [i \in 1..Len(kept) |-> Entry(kept[i])]

\* get_devices
get_devices(names) ==
    [leaders |-> ListOf(names, "leader"), followers |-> ListOf(names, "follower")]

NoDevices == [leaders |-> << >>, followers |-> << >>]

\* no pair: what a run records when it resolved or chose nothing
NoPair ==
    [follower_port |-> NoPath, leader_port |-> NoPath,
     follower_type |-> NoType, leader_type |-> NoType,
     follower_id |-> NoPath, leader_id |-> NoPath]

\* a finished run: which program, /dev and the file when it began, whether it
\* got a pair (the selector: chose and wrote one), the pair, and what
\* get_devices returned to it
Run(flow, ok, pair, found) ==
    [flow |-> flow, devs |-> devs, file |-> configFile, ok |-> ok, pair |-> pair,
     found |-> found]

\* the pair select_teleop.start_teleoperation builds from two chosen entries
ChosenPair(f, l) ==
    [follower_port |-> f.link, leader_port |-> l.link,
     follower_type |-> f.type, leader_type |-> l.type,
     follower_id |-> f.nice_name, leader_id |-> l.nice_name]

\* the service does nothing while the other programs run
service == <<teleop_process, teleop_mode, devices_available, procs, nspawned,
             nreq, sequential, pc, loc>>

\* a run may begin
MayBegin == Len(runs) < MaxRuns

\* a file of one line only
OneLine(f) == [exists |-> TRUE, text |-> <<f, NL>>]

\* a file of three lines
ThreeLines(f, l, x) == [exists |-> TRUE, text |-> <<f, NL, l, NL, x, NL>>]

\* faulty variant of DefaultsExist: the default pair is taken untested
DefaultsUnchecked == TRUE

\* both default links are in /dev
DefaultsExist == Exists(DefaultFollower) /\ Exists(DefaultLeader)

\* what the operator may type at a selection prompt: a number, something that
\* is no number, or Ctrl-C
Index(k) == [kind |-> "index", n |-> k]
NoNumber == [kind |-> "text", n |-> 0]
CtrlC == [kind |-> "ctrl_c", n |-> 0]
Answers(n) == {Index(k) : k \in 0..(n + 1)} \cup {NoNumber, CtrlC}

\* answers given at one prompt at most (bounds the dialogue)
MaxAnswers == 2

\* faulty variant of Prompt: the number typed is taken as the position itself
PromptZeroBased(n, answers) ==
    IF answers = << >> THEN [st |-> "asking", idx |-> 0]
    ELSE LET idx == Head(answers).n
         IN  IF Head(answers).kind # "index" THEN [st |-> "cancelled", idx |-> 0]
             ELSE IF 0 <= idx /\ idx < n THEN [st |-> "selected", idx |-> idx]
             ELSE [st |-> "cancelled", idx |-> 0]

\* select_device, the while loop: idx = int(choice) - 1; an idx in range
\* selects, another number asks again, ValueError and KeyboardInterrupt leave
\* with sys.exit(0)
RECURSIVE Prompt(_, _)
Prompt(n, answers) ==
    IF answers = << >> THEN [st |-> "asking", idx |-> 0]
    ELSE LET idx == Head(answers).n - 1
         IN  IF Head(answers).kind # "index" THEN [st |-> "cancelled", idx |-> 0]
             ELSE IF 0 <= idx /\ idx < n THEN [st |-> "selected", idx |-> idx]
             ELSE Prompt(n, Tail(answers))

\* select_device: the only entry without a prompt, else the prompt loop
select_device(devices, answers) ==
    IF Len(devices) = 0 THEN [st |-> "none", idx |-> 0]
    ELSE IF Len(devices) = 1 THEN [st |-> "selected", idx |-> 0]
    ELSE Prompt(Len(devices), answers)

\* the dialogues select_device can have over these entries: the answers it
\* reads, up to the one that ends the loop
Dialogues(devices) ==
    IF Len(devices) <= 1 THEN {<< >>}
    ELSE {a \in UNION {[1..k -> Answers(Len(devices))] : k \in 1..MaxAnswers} :
            /\ Prompt(Len(devices), a).st # "asking"
            /\ Prompt(Len(devices), SubSeq(a, 1, Len(a) - 1)).st = "asking"}

\* answers at "Start teleoperation? [Y/n]": empty or yes, anything else, Ctrl-C
Confirms == {"yes", "no", "ctrl_c"}

\* subprocess.run(cmd, check=True): the child returns 0, returns another code,
\* is interrupted by the operator, or cannot be executed
ChildEnds == {"done", "failed", "interrupted", "raised"}

\* exit codes of an interpreter that ends on an uncaught KeyboardInterrupt
InterruptCodes == {1, 130}

\* faulty variant of Foreground: a selection that could not be written ends
\* the run
ForegroundNeedsFile(run, confirm, end, code) ==
    IF ~run.saved THEN [run EXCEPT !.exit = 1]
    ELSE IF confirm = "no" THEN [run EXCEPT !.confirm = confirm, !.exit = 0]
    ELSE IF confirm = "ctrl_c" THEN [run EXCEPT !.confirm = confirm, !.exit = code]
    ELSE [run EXCEPT !.confirm = confirm, !.child = end,
                     !.spawns = IF end = "raised" THEN 0 ELSE 1,
                     !.exit = IF end \in {"done", "interrupted"} THEN 0 ELSE 1]

\* select_teleop.start_teleoperation after the write of the file: the
\* confirmation, then the child in the foreground
Foreground(run, confirm, end, code) ==
    IF confirm = "no" THEN [run EXCEPT !.confirm = confirm, !.exit = 0]
    ELSE IF confirm = "ctrl_c" THEN [run EXCEPT !.confirm = confirm, !.exit = code]
    ELSE [run EXCEPT !.confirm = confirm, !.child = end,
                     !.spawns = IF end = "raised" THEN 0 ELSE 1,
                     !.exit = IF end \in {"done", "interrupted"} THEN 0 ELSE 1]

\* how "with open(config_file, 'w') as f: f.write(..); f.write(..)" may end:
\* both lines are written; open() raises and the file is as it was; or open()
\* has emptied the file and the write fails with nothing or one line stored
WriteEnds == {"written", "refused", "emptied", "cut"}

\* the file after that block (the exception is caught and reported)
Written(w, f, l) ==
    IF w = "written" THEN FileOf(f, l)
    ELSE IF w = "refused" THEN configFile
    ELSE IF w = "emptied" THEN [exists |-> TRUE, text |-> << >>]
    ELSE OneLine(f)

\* the ways a run that has chosen its pair can go on and end
Foregrounds(run) ==
    {Foreground(run, confirm, end, code) :
        confirm \in Confirms, end \in ChildEnds, code \in InterruptCodes}

\* select_teleop.main without a flag: scan, leave with code 1 when a role has
\* no device, else choose one entry of each list (the only one, or the one the
\* operator's index names), write the two link paths to the file, ask for
\* confirmation and run the child
SelectorMain ==
    /\ MayBegin
    /\ LET found == get_devices(devs)
           began == [NoRun EXCEPT !.flow = "selector"]
       IN  IF found.followers = << >> \/ found.leaders = << >>
           THEN /\ runs' = Append(runs, Run("selector", FALSE, NoPair, found))
                /\ last' = [began EXCEPT !.exit = 1]
                /\ UNCHANGED configFile
           ELSE \E fa \in Dialogues(found.followers),
                   la \in Dialogues(found.leaders) :
                  LET fs == select_device(found.followers, fa)
                      ls == select_device(found.leaders, la)
                      f == found.followers[fs.idx + 1]
                      l == found.leaders[ls.idx + 1]
                  IN  IF fs.st # "selected"
                      THEN /\ runs' = Append(runs, Run("selector", FALSE,
                                                       NoPair, found))
                           /\ last' = [began EXCEPT !.follower = fa]
                           /\ UNCHANGED configFile
                      ELSE IF ls.st # "selected"
                      THEN /\ runs' = Append(runs, Run("selector", FALSE,
                                                       NoPair, found))
                           /\ last' = [began EXCEPT !.follower = fa,
                                                    !.leader = la,
                                                    !.chosen.follower = fs.idx + 1]
                           /\ UNCHANGED configFile
                      ELSE \E w \in WriteEnds :
                           /\ configFile' = Written(w, f.link, l.link)
                           /\ runs' = Append(runs, Run("selector", w = "written",
                                                       ChosenPair(f, l), found))
                           /\ last' \in Foregrounds(
                                  [began EXCEPT
                                     !.follower = fa, !.leader = la,
                                     !.chosen = [follower |-> fs.idx + 1,
                                                 leader |-> ls.idx + 1],
                                     !.saved = (w = "written"),
                                     !.write = w])
    /\ UNCHANGED <<service, cfg, devs>>

\* faulty variant of SelectorReset: the file is left where it is
SelectorResetKeeps ==
    /\ MayBegin
    /\ runs' = Append(runs, Run("reset", TRUE, NoPair, NoDevices))
    /\ last' = [NoRun EXCEPT !.flow = "reset"]
    /\ UNCHANGED <<service, cfg, devs, configFile>>

\* select_teleop.main with --reset: unlink the file if it is there
SelectorReset ==
    /\ MayBegin
    /\ configFile' = NoFile
    /\ runs' = Append(runs, Run("reset", TRUE, NoPair, NoDevices))
    /\ last' = [NoRun EXCEPT !.flow = "reset"]
    /\ UNCHANGED <<service, cfg, devs>>

\* subprocess.Popen(cmd, ...): the child runs, or cannot be executed
PopenEnds == {"running", "raised"}

\* faulty variant of Background: the command is run whether or not a pair was
\* resolved
BackgroundAlways(resolved, end) ==
    [NoRun EXCEPT !.flow = "startup", !.child = end,
                  !.spawns = IF end = "running" THEN 1 ELSE 0]

\* startup.start_teleoperation from the command on: Popen inside try/except,
\* no wait; main then logs "Startup compleet" and returns
Background(resolved, end) ==
    IF ~resolved THEN [NoRun EXCEPT !.flow = "startup"]
    ELSE [NoRun EXCEPT !.flow = "startup", !.child = end,
                       !.spawns = IF end = "running" THEN 1 ELSE 0]

\* faulty variant of StartupMain: after unlinking an unusable file the launcher
\* gives up instead of trying the default pair
StartupMainGivesUp ==
    /\ MayBegin
    /\ IF devs = {}
       THEN /\ runs' = Append(runs, Run("startup", FALSE, NoPair, NoDevices))
            /\ last' = Background(FALSE, "raised")
            /\ UNCHANGED configFile
       ELSE LET unlinked == configFile.exists /\ Len(lines) >= 2 /\ ~SavedUsable
                ok == SavedUsable \/ (DefaultsExist /\ ~unlinked)
                pair == IF SavedUsable
                        THEN SavedPlan(lines[1], lines[2])
                        ELSE IF ok THEN DefaultPlan ELSE NoPair
            IN  /\ configFile' = IF unlinked THEN NoFile ELSE configFile
                /\ runs' = Append(runs, Run("startup", ok, pair, NoDevices))
                /\ \E end \in PopenEnds : last' = Background(ok, end)
    /\ UNCHANGED <<service, cfg, devs>>

\* startup.main: check_devices, then start_teleoperation when it found any.
\* start_teleoperation takes the saved pair when it is usable, unlinks a file of
\* two lines that is not, and else takes the default pair when both its links
\* exist
StartupMain ==
    /\ MayBegin
    /\ IF devs = {}
       THEN /\ runs' = Append(runs, Run("startup", FALSE, NoPair, NoDevices))
            /\ last' = Background(FALSE, "raised")
            /\ UNCHANGED configFile
       ELSE LET ok == SavedUsable \/ DefaultsExist
                pair == IF SavedUsable
                        THEN SavedPlan(lines[1], lines[2])
                        ELSE IF DefaultsExist THEN DefaultPlan ELSE NoPair
            IN  /\ configFile' =
                      IF configFile.exists /\ Len(lines) >= 2
                         /\ ~SavedUsable
                      THEN NoFile ELSE configFile
                /\ runs' = Append(runs, Run("startup", ok, pair, NoDevices))
                /\ \E end \in PopenEnds : last' = Background(ok, end)
    /\ UNCHANGED <<service, cfg, devs>>

\* RobotState.load_device_config in one piece: the six fields it assigns and
\* what it returns
LoadDeviceConfig ==
    /\ MayBegin
    /\ cfg' = IF SavedUsable
              THEN SavedPlan(lines[1], lines[2])
              ELSE DefaultPlan
    /\ runs' = Append(runs, Run("service", SavedUsable \/ DefaultsExist, cfg',
                                NoDevices))
    /\ last' = [NoRun EXCEPT !.flow = "service"]
    /\ UNCHANGED <<service, devs, configFile>>

\* links appear in /dev and disappear from it
Replug(d) ==
    /\ MayBegin
    /\ d # devs
    /\ devs' = d
    /\ UNCHANGED <<service, cfg, configFile, runs, last>>

\* what /dev may hold
DevSets ==
    { {},
      {DefaultFollower, DefaultLeader},
      {DefaultFollower},
      {ArmFollower, CtrlLeader},
      {ArmFollower, CtrlLeader, DefaultFollower, DefaultLeader},
      {ArmFollower, ShortLeader, DefaultFollower, DefaultLeader},
      {ArmFollower, Arm2Follower, CtrlLeader, CamFront},
      {TtyLabelFollower, CtrlLeader, ShortLeader},
      {ArmFollower, CtrlLeader, TtyOnlyLeader, ShiftedLeader} }

\* what the file may hold when the first run begins
Files ==
    { NoFile, OneLine(ArmFollower), FileOf(ArmFollower, CtrlLeader),
      FileOf(ArmFollower, ShortLeader), FileOf(TtyLabelFollower, CtrlLeader),
      ThreeLines(ArmFollower, CtrlLeader, DefaultLeader) }

InitTools ==
    /\ Boot
    /\ sequential = TRUE
    /\ devs \in DevSets
    /\ configFile \in Files

NextTools ==
    \/ SelectorMain
    \/ SelectorReset
    \/ StartupMain
    \/ LoadDeviceConfig
    \/ \E d \in DevSets : Replug(d)

\* the launcher, the selector and the service's loader, run one after another
SpecTools == InitTools /\ [][NextTools]_vars

\* ------------------------------------------------------------------ claims

\* a child Popen has returned to a start that has not yet stored the handle
BeingStored(p) == \E t \in Threads : pc[t] = "s155" /\ loc[t].process = p

\* C1: at most one spawned child is alive at any time, and every alive child
\* is the one state.teleop_process refers to (or is just being stored there).
C1_OneChildNoOrphan ==
    /\ Cardinality(AliveChildren) <= 1
    /\ \A p \in AliveChildren : p = teleop_process \/ BeingStored(p)

\* threads whose call to op has returned (the handler has not answered yet)
Returned(op) == {t \in Threads : pc[t] = "done" /\ loc[t].op = op}

\* C1 is reached: two starts overlap, one child is stored and alive
C1_Witness ==
    /\ Cardinality({t \in Threads : loc[t].op = "start" /\ pc[t] # "done"}) = 2
    /\ Running

\* C2: a start that is called while the child of an earlier start is alive, and
\* returns while it still is, returns False, has spawned nothing and leaves the
\* mode and the handle as they were: exactly one child is alive.
C2_SecondStartRefused ==
    \A t \in Returned("start") :
        (loc[t].wasChild # NoProc /\ Alive(loc[t].wasChild)) =>
            /\ loc[t].ret = "False"
            /\ loc[t].process = NoProc
            /\ teleop_mode = loc[t].wasMode
            /\ teleop_process = loc[t].wasChild
            /\ AliveChildren = {teleop_process}

C2_Witness ==
    \E t \in Returned("start") :
        loc[t].wasChild # NoProc /\ Alive(loc[t].wasChild) /\ loc[t].ret = "False"

\* C3: whenever no call is under way, mode = teleoperation implies that the
\* handle is set and mode = stopped implies that it is cleared.
C3_ModeMatchesHandle ==
    Active = {} =>
        /\ teleop_mode = "teleoperation" => teleop_process # NoProc
        /\ teleop_mode = "stopped" => teleop_process = NoProc

\* C4: a status response never pairs mode = teleoperation with an unset handle,
\* nor running = true with mode = stopped.
C4_StatusConsistent ==
    \A t \in Returned("status") :
        loc[t].ret = "True" =>
            /\ ~(loc[t].resp.mode = "teleoperation" /\ ~loc[t].resp.hset)
            /\ ~(loc[t].resp.running /\ loc[t].resp.mode = "stopped")

\* no child has exited without having been signalled
NoneExitedAlone ==
    \A p \in Pids : procs[p].st = "exited" => procs[p].term \/ procs[p].kill

\* mode and handle agree with each other and with the children
Consistent ==
    \/ teleop_mode = "teleoperation" /\ Running
    \/ teleop_mode = "stopped" /\ teleop_process = NoProc /\ AliveChildren = {}

\* C5: when one start request and one stop request have both returned (in any
\* interleaving), the state is consistent.
C5_StartStopConsistent ==
    ( /\ \A t \in Handlers : pc[t] = "done"
      /\ {loc[t].op : t \in Handlers} = {"start", "stop"}
      /\ \A t \in Handlers : loc[t].ret # "raised"
      /\ NoneExitedAlone )
    => Consistent

\* C6: when stop returns, on any path, the handle is cleared and mode = stopped.
C6_StopClears ==
    \A t \in Returned("stop") :
        teleop_process = NoProc /\ teleop_mode = "stopped"

\* C7: a stop that is called when no child is running returns False, has called
\* neither terminate nor kill, and leaves mode = stopped whatever it was.
C7_StopNotRunning ==
    \A t \in Returned("stop") :
        loc[t].wasChild = NoProc =>
            /\ loc[t].ret = "False"
            /\ loc[t].term = NoProc /\ loc[t].kill = NoProc
            /\ teleop_mode = "stopped"

C7_Witness ==
    \E t \in Returned("stop") :
        loc[t].wasChild = NoProc /\ loc[t].wasMode = "teleoperation"

\* what holds of a stop that has signalled the child when it returns
StopResolved ==
    \A t \in Returned("stop") :
        /\ loc[t].term # NoProc =>
              loc[t].ret = "True" /\ ~Alive(loc[t].term) /\ teleop_mode = "stopped"
        /\ loc[t].kill # NoProc => loc[t].kill = loc[t].term

\* C8: a stop that has sent SIGTERM eventually returns, although the child may
\* stay alive until it is killed; it polls at most PollBudget times, and when
\* it returns it returns True with the child dead and mode = stopped.
C8_StopResolves ==
    /\ [](StopResolved /\ \A t \in Threads : loc[t].i <= PollBudget)
    /\ \A t \in Threads : (pc[t] = "p183") ~> (pc[t] = "done")

C8_Witness ==
    \E t \in Returned("stop") :
        /\ loc[t].kill # NoProc /\ procs[loc[t].kill].kill
        /\ loc[t].ret = "True"

\* C9: kill is called only on the process this stop called terminate on, and
\* only after the whole polling budget was spent with the child alive.
C9_KillAfterBudget ==
    \A t \in Threads :
        loc[t].kill # NoProc =>
            /\ loc[t].kill = loc[t].term
            /\ loc[t].i = PollBudget
            /\ procs[loc[t].kill].term

C9_Witness ==
    \E t \in Threads :
        pc[t] = "p190" /\ loc[t].i = PollBudget /\ Alive(loc[t].kill)

\* a start that got as far as Popen and returned False: the spawn raised
SpawnFailed(t) ==
    pc[t] = "done" /\ loc[t].op = "start" /\ loc[t].ret = "False"
    /\ loc[t].args # << >>

\* C10: when spawning fails, start returns False with mode = stopped and the
\* handle cleared: no child is recorded as running.
C10_SpawnFailureStopped ==
    \A t \in Threads :
        SpawnFailed(t) =>
            teleop_process = NoProc /\ teleop_mode = "stopped" /\ ~Running

C10_Witness ==
    \E t \in Threads : SpawnFailed(t) /\ loc[t].wasMode = "teleoperation"

\* C11: a start request spawns a child only with a pair whose two device paths
\* exist, whatever requests were served before it.
C11_SpawnOnlyResolved ==
    \A t \in Handlers :
        pc[t] = "s155" =>
            Exists(loc[t].args.follower_port) /\ Exists(loc[t].args.leader_port)

\* the runs that resolved a pair unattended: the launcher and the service
Unattended == {i \in 1..Len(runs) : runs[i].flow \in {"startup", "service"}}

\* a name splits into at least 3 segments once "tty_" is taken off
NameParses(n) == Len(Parts(n)) >= 3

\* the persisted selection is valid: 2 lines or more, both paths there, both
\* names parse
PersistedValid(d, f) ==
    /\ f.exists /\ Len(LinesOf(f)) >= 2
    /\ LinesOf(f)[1] \in d /\ LinesOf(f)[2] \in d
    /\ NameParses(LinesOf(f)[1]) /\ NameParses(LinesOf(f)[2])

\* C12: a resolution returns the persisted pair when the selection is valid;
\* otherwise the default pair (so101, default) when both default links exist;
\* otherwise it fails.
C12_ResolutionOrder ==
    \A i \in Unattended :
        LET r == runs[i]
        IN  IF PersistedValid(r.devs, r.file)
            THEN /\ r.ok
                 /\ r.pair.follower_port = LinesOf(r.file)[1]
                 /\ r.pair.leader_port = LinesOf(r.file)[2]
            ELSE IF {DefaultFollower, DefaultLeader} \subseteq r.devs
                 THEN r.ok /\ r.pair = DefaultPlan
                 ELSE ~r.ok

\* a valid selection was preferred by the launcher to a default pair that was
\* there too
C12_Witness ==
    \E i \in Unattended :
        /\ runs[i].flow = "startup"
        /\ PersistedValid(runs[i].devs, runs[i].file)
        /\ {DefaultFollower, DefaultLeader} \subseteq runs[i].devs
        /\ runs[i].pair.follower_port = ArmFollower

\* the file names two paths of which one is not there
Stale(d, f) ==
    f.exists /\ Len(LinesOf(f)) >= 2 /\ ~({LinesOf(f)[1], LinesOf(f)[2]} \subseteq d)

\* C13: when the last run loaded a selection that names a missing path, it
\* took nothing from it and the file is gone; this for the launcher and for
\* the service.
C13_StaleDeleted ==
    (Len(runs) > 0 /\ Len(runs) \in Unattended) =>
        LET r == runs[Len(runs)]
        IN  (r.devs # {} /\ Stale(r.devs, r.file)) =>
                /\ r.pair.follower_port # LinesOf(r.file)[1]
                /\ ~configFile.exists

\* C14: when a run of the selector saved a pair and the next run is a load by
\* the launcher or the service with both paths still in /dev, the load returns
\* the same two paths in the same roles.
C14_SaveLoadRoundTrip ==
    \A i \in Unattended :
        (i > 1 /\ runs[i-1].flow = "selector" /\ runs[i-1].ok
         /\ {runs[i-1].pair.follower_port, runs[i-1].pair.leader_port}
                \subseteq runs[i].devs) =>
            /\ LinesOf(runs[i].file)
                   = <<runs[i-1].pair.follower_port, runs[i-1].pair.leader_port>>
            /\ runs[i].ok
            /\ runs[i].pair.follower_port = runs[i-1].pair.follower_port
            /\ runs[i].pair.leader_port = runs[i-1].pair.leader_port

\* the launcher loaded what the selector saved over another selection, while
\* the default pair was there too
C14_Witness ==
    \E i \in Unattended :
        /\ i > 1 /\ runs[i-1].flow = "selector" /\ runs[i-1].ok
        /\ runs[i-1].file.exists
        /\ LinesOf(runs[i-1].file)[1] # runs[i-1].pair.follower_port
        /\ runs[i].flow = "startup"
        /\ runs[i].pair.leader_port = runs[i-1].pair.leader_port
        /\ runs[i].pair.leader_port # DefaultLeader

\* C15: two resolutions in a row by the same program, with /dev the same and
\* nobody else writing the file, have the same outcome: the same pair, or
\* failure both times.
C15_ResolutionIdempotent ==
    \A i \in Unattended :
        (i > 1 /\ runs[i-1].flow = runs[i].flow /\ runs[i-1].devs = runs[i].devs) =>
            /\ runs[i].ok = runs[i-1].ok
            /\ runs[i].pair = runs[i-1].pair

\* the launcher resolved twice, and its first run removed a stale file
C15_Witness ==
    \E i \in Unattended :
        /\ i > 1 /\ runs[i-1].flow = "startup" /\ runs[i].flow = "startup"
        /\ runs[i-1].devs = runs[i].devs
        /\ runs[i-1].file.exists /\ ~runs[i].file.exists
        /\ runs[i].ok

\* exactly one device of each role is there, and neither a selection nor the
\* default pair
OnlyOnePair(r) ==
    /\ Len(get_devices(r.devs).followers) = 1
    /\ Len(get_devices(r.devs).leaders) = 1
    /\ ~r.file.exists
    /\ ~({DefaultFollower, DefaultLeader} \subseteq r.devs)

\* C16 as stated: with exactly one device of each role, no selection and no
\* default pair, an unattended resolution returns the discovered pair.
C16_UnattendedAutoSelect ==
    \A i \in Unattended :
        OnlyOnePair(runs[i]) =>
            /\ runs[i].ok
            /\ runs[i].pair.follower_port = get_devices(runs[i].devs).followers[1].link
            /\ runs[i].pair.leader_port = get_devices(runs[i].devs).leaders[1].link

\* C16, amended: in that situation an unattended resolution fails and returns
\* no discovered device (the launcher has no pair, the service is left with
\* the default values); the selector is the flow that takes the only pair.
C16_UnattendedFails ==
    \A i \in 1..Len(runs) :
        LET r == runs[i]
        IN  OnlyOnePair(r) =>
              /\ r.flow = "startup" => ~r.ok /\ r.pair = NoPair
              /\ r.flow = "service" => ~r.ok /\ r.pair = DefaultPlan
              /\ r.flow = "selector" =>
                    r.pair = ChosenPair(r.found.followers[1], r.found.leaders[1])

C16_Witness ==
    \E i \in Unattended :
        OnlyOnePair(runs[i]) /\ runs[i].flow = "startup" /\ ~runs[i].ok

\* the runs of the selector, each holding what get_devices returned
Scans == {i \in 1..Len(runs) : runs[i].flow = "selector"}

Roles == {"leader", "follower"}

\* the name is tty_<l>_<role>_<t> with a label of one segment or more
WellFormed(n) == Len(n) >= 4 /\ n[1] = "tty" /\ n[Len(n) - 1] \in Roles

\* the entries of a list that were made from this name
EntriesFor(list, n) == {k \in 1..Len(list) : list[k].link = n}

\* C17: for every well-formed name in /dev the scan holds exactly one entry,
\* in the list of its role, with the name's last segment as type and all the
\* segments between the prefix and the role as label.
C17_ScannerPlacesEntry ==
    \A i \in Scans : \A n \in runs[i].devs :
        WellFormed(n) =>
            LET found == runs[i].found
                mine == IF n[Len(n) - 1] = "leader" THEN found.leaders
                        ELSE found.followers
                other == IF n[Len(n) - 1] = "leader" THEN found.followers
                         ELSE found.leaders
            IN  /\ Cardinality(EntriesFor(mine, n)) = 1
                /\ EntriesFor(other, n) = {}
                /\ \A k \in EntriesFor(mine, n) :
                      /\ mine[k].type = n[Len(n)]
                      /\ mine[k].nice_name = SubSeq(n, 2, Len(n) - 2)

\* C18: a name with fewer than 3 segments after the prefix, or whose
\* second-to-last segment is no role, is in neither list, and the lists are
\* what they would be without it.
C18_ScannerSkipsMalformed ==
    \A i \in Scans : \A n \in runs[i].devs :
        (Len(n) - 1 < 3 \/ n[Len(n) - 1] \notin Roles) =>
            /\ EntriesFor(runs[i].found.leaders, n) = {}
            /\ EntriesFor(runs[i].found.followers, n) = {}
            /\ runs[i].found = get_devices(runs[i].devs \ {n})

\* auto_start_thread is inside its call of start_teleoperation
AutoAttempt == loc[AutoThread].op = "start"

\* C19: auto_start_thread calls start_teleoperation at most once, only
\* after its refresh found some device, and ends after the call whatever the
\* call returned; once it has ended it stays ended, and every child spawned
\* from then on is spawned by a handler serving a start request.
C19_AutoStartOnce ==
    [][/\ (~AutoAttempt /\ AutoAttempt') =>
              pc[AutoThread] = "a565" /\ devices_available /\ devs # {}
       /\ (AutoAttempt /\ ~AutoAttempt') => pc'[AutoThread] = "a_fin"
       /\ pc[AutoThread] = "a_fin" =>
              /\ pc'[AutoThread] = "a_fin" /\ ~AutoAttempt'
              /\ nspawned' # nspawned =>
                    \E t \in Handlers :
                        loc[t].op = "start" /\ pc[t] = "s147" /\ pc'[t] = "s155"
      ]_vars

\* the one attempt of auto_start_thread has failed and the thread is about to end
C19_Witness ==
    /\ pc[AutoThread] = "done" /\ AutoAttempt
    /\ loc[AutoThread].ret = "False"

\* C20: while a status query is served (and no other call is under way) no
\* step changes state.teleop_mode, state.teleop_process or any of the six
\* port/type/id fields of the active pair.
C20_StatusReadOnly ==
    [][(\E t \in Handlers : loc'[t].op = "status") =>
           UNCHANGED <<teleop_mode, teleop_process, cfg>>]_vars

\* the latest run was the launcher's and it called start_teleoperation
LauncherTried ==
    last.flow = "startup" /\ Len(runs) > 0 /\ runs[Len(runs)].devs # {}

\* C21: a start request answers success = false exactly when it spawned no
\* child, a stop request exactly when it signalled none; the launcher exits
\* non-zero when it tried and spawned no child, and so does the selector when
\* the child it was told to run failed or could not be executed.
C21_FailuresReported ==
    /\ \A t \in Returned("start") :
          loc[t].ret # "raised" => (loc[t].ret = "False" <=> loc[t].process = NoProc)
    /\ \A t \in Returned("stop") :
          loc[t].ret # "raised" => (loc[t].ret = "False" <=> loc[t].term = NoProc)
    /\ (LauncherTried /\ last.spawns = 0) => last.exit # 0
    /\ (last.flow = "selector" /\ last.child \in {"failed", "raised"}) =>
          last.exit # 0

\* C22: no handler of a status, start or stop request ends with an exception
\* that nothing catches, however the requests interleave.
C22_NoUnhandledError ==
    \A t \in Handlers : loc[t].ret # "raised"

\* the operator left the dialogue at a selection prompt
CancelledAt(answers) ==
    answers # << >> /\ answers[Len(answers)].kind # "index"

\* the operator cancelled the latest run of the selector: at a selection
\* prompt, at the confirmation prompt, or by interrupting the child
OperatorCancelled ==
    \/ CancelledAt(last.follower) \/ CancelledAt(last.leader)
    \/ last.confirm \in {"no", "ctrl_c"}
    \/ last.child = "interrupted"

\* C23: the selector exits with code 0 when the child returned 0 or the
\* operator cancelled, and with code 1 when a role has no device or the child
\* failed or could not be executed.
C23_SelectorExitCodes ==
    (last.flow = "selector" /\ Len(runs) > 0) =>
        LET found == runs[Len(runs)].found
        IN  /\ (last.child = "done" \/ OperatorCancelled) => last.exit = 0
            /\ (\/ found.followers = << >> \/ found.leaders = << >>
                \/ last.child \in {"failed", "raised"}) => last.exit = 1

\* the runs that came right after a run with --reset and resolved a pair
AfterReset ==
    {i \in Unattended :
        /\ i > 1 /\ runs[i-1].flow = "reset"
        /\ (runs[i].flow = "service" \/ runs[i].devs # {})}

\* C24: a run with --reset leaves no selection file, whether there was one or
\* not, exits 0, scans nothing, writes no selection and starts no child; the
\* resolution that follows takes the default pair when both default links
\* exist and fails otherwise, with no port of the deleted selection.
C24_ResetFallsBack ==
    /\ (last.flow = "reset" /\ Len(runs) > 0) =>
          /\ ~configFile.exists
          /\ last.exit = 0 /\ last.spawns = 0 /\ last.child = "none"
          /\ ~last.saved
          /\ runs[Len(runs)].found = NoDevices
    /\ \A i \in AfterReset :
          /\ ~runs[i].file.exists
          /\ IF {DefaultFollower, DefaultLeader} \subseteq runs[i].devs
             THEN runs[i].ok /\ runs[i].pair = DefaultPlan
             ELSE ~runs[i].ok /\ runs[i].pair \in {DefaultPlan, NoPair}

\* a selection that was usable is reset and the next resolution takes the
\* default pair
C24_Witness ==
    \E i \in AfterReset :
        /\ PersistedValid(runs[i].devs, runs[i-1].file)
        /\ runs[i].ok /\ runs[i].pair = DefaultPlan

\* C25: a run of the launcher spawns one child at most, spawns it only when
\* /dev held some link and a pair was resolved, and ends while that child is
\* still running.
C25_LauncherSpawnsOnce ==
    (last.flow = "startup" /\ Len(runs) > 0) =>
        LET r == runs[Len(runs)]
        IN  /\ last.spawns <= 1
            /\ last.spawns = 1 => r.devs # {} /\ r.ok /\ last.child = "running"
            /\ last.spawns = 0 => last.child \in {"none", "raised"}

\* the launcher has spawned the child and ended
C25_Witness ==
    last.flow = "startup" /\ last.spawns = 1 /\ last.child = "running"

\* C26: a stop signals only children spawned before it began and clears the
\* handle only of such a child.
C26_StopSparesLaterChild ==
    [][\A t \in Handlers :
          loc'[t].op = "stop" =>
              /\ loc'[t].term # NoProc => loc'[t].term <= loc'[t].since
              /\ loc'[t].kill # NoProc => loc'[t].kill <= loc'[t].since
              /\ (pc[t] = "p193" /\ pc'[t] = "p194" /\ teleop_process # NoProc) =>
                     teleop_process <= loc[t].since
      ]_vars

\* the name has fewer than 3 segments after the prefix, or after the loaders'
\* replace("tty_", "")
ParseFails(n) == Len(n) - 1 < 3 \/ Len(Parts(n)) < 3

\* the run read a file whose two paths exist and of which a name fails to parse
Unparsed(r) ==
    /\ r.file.exists
    /\ Len(LinesOf(r.file)) >= 2
    /\ {LinesOf(r.file)[1], LinesOf(r.file)[2]} \subseteq r.devs
    /\ ParseFails(LinesOf(r.file)[1]) \/ ParseFails(LinesOf(r.file)[2])

\* C27: when both saved paths exist but a name fails to parse, the resolver
\* ends with the default pair or with no pair at all: every one of the six
\* fields is the default's.
C27_NoPartialSelection ==
    \A i \in Unattended :
        Unparsed(runs[i]) =>
            /\ runs[i].pair \in {DefaultPlan, NoPair}
            /\ runs[i].ok => runs[i].pair = DefaultPlan

\* a selection whose leader name has two segments is passed over for the
\* default pair
C27_Witness ==
    \E i \in Unattended :
        /\ Unparsed(runs[i])
        /\ ~ParseFails(LinesOf(runs[i].file)[1])
        /\ runs[i].ok /\ runs[i].pair = DefaultPlan

\* C28: the handler of a status request that came while a stop was in its
\* wait loop always has a next step, whatever the stop is doing: it never
\* waits for the stop.
C28_StatusNotBlocked ==
    \A t \in Handlers :
        (loc[t].op = "status" /\ loc[t].during /\ pc[t] # "done") =>
            ENABLED Step(t)

\* such a request has its status object while the stop is still in the loop
C28_Witness ==
    \E t \in Returned("status") :
        loc[t].during /\ loc[t].ret = "True" /\ StopWaits

\* C29: while a child is running and /dev holds no link, a step of
\* refresh_state (in a status request or in auto_start_thread) sets
\* devices_available to false and leaves the mode, the handle, the pair and
\* the signals sent to the children as they are.
C29_RefreshOnlyFlag ==
    [][\A t \in Threads :
          (/\ Running /\ devs = {}
           /\ pc'[t] # pc[t] \/ loc'[t] # loc[t]
           /\ loc'[t].op \in {"status", "auto"}) =>
              /\ UNCHANGED <<teleop_mode, teleop_process, cfg>>
              /\ \A p \in Pids : /\ procs'[p].term = procs[p].term
                                 /\ procs'[p].kill = procs[p].kill
              /\ pc'[t] = "r45" => ~devices_available'
      ]_vars

\* a status request has been served with the child running and /dev empty
C29_Witness ==
    \E t \in Returned("status") :
        /\ Running /\ devs = {} /\ ~devices_available
        /\ teleop_mode = "teleoperation"
        /\ loc[t].ret = "True" /\ loc[t].resp.running

\* the dialogue of one role went as select_device prescribes: no prompt and
\* the only entry when there is one; else numbers out of range are asked
\* again, and the entry chosen is the one at the number in range
RoleChosen(list, answers, chosen) ==
    IF Len(list) = 1 THEN answers = << >> /\ chosen = 1
    ELSE /\ answers # << >>
         /\ \A j \in 1..(Len(answers) - 1) :
               /\ answers[j].kind = "index"
               /\ answers[j].n \notin 1..Len(list)
         /\ LET a == answers[Len(answers)]
            IN  IF a.kind = "index"
                THEN a.n \in 1..Len(list) /\ chosen = a.n
                ELSE chosen = 0

\* C30: in a run of the selector each role with one entry is chosen without
\* a prompt; with several entries the operator is asked until a number in
\* range is given and the entry at that number is chosen and written; when a
\* role has no entry the run exits with code 1 and writes nothing.
C30_InteractiveSelection ==
    (last.flow = "selector" /\ Len(runs) > 0) =>
        LET r == runs[Len(runs)]
            fs == r.found.followers
            ls == r.found.leaders
        IN  IF fs = << >> \/ ls = << >>
            THEN /\ last.exit = 1 /\ ~last.saved /\ configFile = r.file
                 /\ last.follower = << >> /\ last.leader = << >>
                 /\ last.spawns = 0
            ELSE /\ RoleChosen(fs, last.follower, last.chosen.follower)
                 /\ last.chosen.follower # 0 =>
                       RoleChosen(ls, last.leader, last.chosen.leader)
                 /\ last.write # "none" <=>
                       (last.chosen.follower # 0 /\ last.chosen.leader # 0)
                 /\ last.write # "none" =>
                       r.pair = ChosenPair(fs[last.chosen.follower],
                                           ls[last.chosen.leader])
                 /\ last.saved =>
                       configFile = FileOf(fs[last.chosen.follower].link,
                                           ls[last.chosen.leader].link)

\* the operator gave a number out of range, was asked again and chose the
\* second of two entries
C30_Witness ==
    /\ last.flow = "selector" /\ last.saved
    /\ \/ Len(last.follower) = 2 /\ last.chosen.follower = 2
       \/ Len(last.leader) = 2 /\ last.chosen.leader = 2

\* the latest run was the selector's and it chose a pair
PairChosen ==
    /\ last.flow = "selector" /\ Len(runs) > 0
    /\ last.chosen.follower # 0 /\ last.chosen.leader # 0

\* C31: once the selector has chosen a pair it writes the selection and then
\* asks for confirmation, whether or not the write succeeded; after a
\* successful write the file holds the chosen pair even when the operator
\* declines, and declining exits 0 with no child; after a failed write a
\* confirmed run still starts the child.
C31_SavedBeforeConfirm ==
    PairChosen =>
        LET r == runs[Len(runs)]
        IN  /\ last.write # "none" /\ last.confirm # "none"
            /\ last.saved =>
                  /\ configFile.exists
                  /\ LinesOf(configFile)
                         = <<r.pair.follower_port, r.pair.leader_port>>
            /\ last.confirm = "no" =>
                  last.exit = 0 /\ last.spawns = 0 /\ last.child = "none"
            /\ last.confirm = "yes" => last.child # "none"

\* the operator declined and the file already holds the new pair
C31_Witness ==
    /\ PairChosen /\ last.confirm = "no" /\ last.saved
    /\ runs[Len(runs)].file # configFile

\* the six values are set and are those of one resolution: the default pair,
\* or what the saved branch derives from the two ports
OneResolution(args) ==
    /\ args.follower_port # NoPath /\ args.leader_port # NoPath
    /\ args.follower_type # NoType /\ args.leader_type # NoType
    /\ args.follower_id # NoPath /\ args.leader_id # NoPath
    /\ \/ args = DefaultPlan
       \/ args = SavedPlan(args.follower_port, args.leader_port)

\* C32: every child the service has spawned was given a complete pair, all
\* six values from one resolution, however a start interleaves with a status
\* request or auto_start_thread that is still loading the configuration.
C32_CompletePair ==
    \A p \in Pids : procs[p].st # "unborn" => OneResolution(procs[p].argv)

\* C33: a status object holds a pid exactly when it holds running = true, and
\* the pid is that of the child the handle refers to.
C33_PidIffRunning ==
    \A t \in Returned("status") :
        loc[t].ret = "True" =>
            /\ loc[t].resp.pid # NoProc <=> loc[t].resp.running
            /\ loc[t].resp.pid # NoProc => loc[t].resp.pid = teleop_process

\* starts that were called with mode = teleoperation and no child running:
\* the child of the session had exited on its own
Restarts ==
    {t \in Returned("start") :
        loc[t].wasMode = "teleoperation" /\ loc[t].wasChild = NoProc}

\* C34: after the child has exited on its own a status object with
\* running = false leaves the handle set and the mode as it reports it, and a
\* start is not refused: it returns True with a new child in the handle and
\* mode = teleoperation, unless the spawn itself failed.
C34_RestartAfterExit ==
    /\ \A t \in Returned("status") :
          (loc[t].ret = "True" /\ loc[t].resp.hset /\ ~loc[t].resp.running) =>
              /\ teleop_process # NoProc /\ ~Alive(teleop_process)
              /\ teleop_mode = loc[t].resp.mode
    /\ \A t \in Restarts :
          \/ SpawnFailed(t)
          \/ /\ loc[t].ret = "True"
             /\ loc[t].process # NoProc
             /\ teleop_process = loc[t].process
             /\ teleop_mode = "teleoperation"
             /\ \E p \in Pids : p < loc[t].process /\ procs[p].st = "exited"
                                /\ ~procs[p].term /\ ~procs[p].kill

\* the session has been restarted without a stop: the second child runs
C34_Witness ==
    \E t \in Restarts :
        loc[t].ret = "True" /\ Running /\ teleop_process = loc[t].process

\* C35: once the service has exited after an interrupt, no child it spawned is
\* alive, whatever a start request or auto_start_thread was doing when the
\* interrupt came
C35_NoChildAfterShutdown ==
    Down => AliveChildren = {}

====
